---- MODULE Spec2Model ----
(***************************************************************************)
(* A model of src/threadpool.rs: the worker pool (ThreadPool), the         *)
(* completion latch (CountdownLatch), the wait handle (Wait) and the       *)
(* strategy wrapper (BranchedExecutor).                                    *)
(*                                                                         *)
(* Three specifications share the variables:                               *)
(*   Spec / FairSpec       one ThreadPool, its worker threads and the      *)
(*                         thread that owns the pool and its wait handles; *)
(*   LatchSpec / LatchFairSpec   one CountdownLatch used directly by       *)
(*                         threads that call countdown() and wait();       *)
(*   ExecSpec              BranchedExecutor::ThisThread.exec.              *)
(*                                                                         *)
(* The latch counter is an AtomicU32.  A u32 value x is represented by the *)
(* integer with the same 32-bit pattern read as two's complement: x itself *)
(* below 2^31 and x - 2^32 from there on, so u32::MAX is -1.  The unsigned *)
(* comparisons of the code are written on that representation:             *)
(* "x > 0" is x # 0 and "x <= 0" is x = 0.                                 *)
(***************************************************************************)
EXTENDS Integers, Sequences, FiniteSets, TLC

\* ------------------------------------------------------------- bounds
MaxThreads == 2
MaxBatches == 2
MaxBatch == 2
MaxDies == 1
MaxObservers == 1
MaxCount == 3
MaxCounters == 2
MaxExtra == 1
MaxLen == 3
MaxValue == 3

VARIABLES
    threadcount,  \* ThreadPool.threadcount
    dead,         \* ThreadPool.dead
    dropped,      \* the pool has been dropped (its Sender is gone)
    chan,         \* the crossbeam channel: the commands sent and not yet received
    latch,        \* the CountdownLatch objects, by id: count, status, mutex holder
    pc,           \* each thread's position in its code
    cur,          \* each thread's locals: the task and latch in hand, a loop index
    sub,          \* the submissions made so far: batch, result, batch handed back
    started,      \* the worker-function invocations begun, in order
    finished,     \* per task, the worker-function invocations that returned
    dies,         \* explicit die() calls made so far
    inits,        \* calls of the context factory made so far
    context,      \* per worker thread, the context its factory call returned
    calls,        \* LatchSpec: countdown() calls made so far
    commands,     \* ExecSpec: the batch given to exec
    log,          \* ExecSpec: the callback invocations, in order
    execResult    \* ExecSpec: what exec returned

vars == <<threadcount, dead, dropped, chan, latch, pc, cur, sub, started,
          finished, dies, inits, context, calls, commands, log, execResult>>

poolVars == <<threadcount, dead, dropped, chan, sub, started, finished, dies,
              inits, context>>
execVars == <<commands, log, execResult>>

\* ------------------------------------------------------------- threads
Main == <<"main", 0>>
Workers == {<<"worker", i>> : i \in 1..MaxThreads}
Observers == {<<"observer", i>> : i \in 1..MaxObservers}
Counters == {<<"counter", i>> : i \in 1..MaxCounters}
Threads == {Main} \cup Workers \cup Observers \cup Counters
Waiters == {Main} \cup Observers
NoThread == <<"none", 0>>

\* ------------------------------------------------------------- tasks
LatchIds == 1..MaxBatches
Tasks == LatchIds \X (1..MaxBatch)
NoTask == <<0, 0>>
NoContext == 0
NoLocals == [task |-> NoTask, latch |-> 0, i |-> 0, n |-> 0, ctx |-> NoContext]

\* The tasks of a batch of n tasks submitted as submission b, in order.
BatchOf(b, n) == [i \in 1..n |-> <<b, i>>]

\* A command that carries the latch of the first submission, whatever its own.
CommandOnFirstLatch(t, l) == [kind |-> "Command", task |-> t, latch |-> 1]

\* ThreadCommand::Command(task, Some(latch)) and ThreadCommand::Die.
Command(t, l) == [kind |-> "Command", task |-> t, latch |-> l]
Die == [kind |-> "Die", task |-> NoTask, latch |-> 0]

\* ------------------------------------------------------------- latch
\* live: the object exists.  init: the count it was constructed with, kept
\* for the statements; no operation reads it.
NoLatch ==
    [live |-> FALSE, init |-> 0, count |-> 0, status |-> FALSE, mutex |-> NoThread]

\* CountdownLatch::new(count)
LatchNew(n) ==
    [live |-> TRUE, init |-> n, count |-> n, status |-> FALSE, mutex |-> NoThread]

\* A wait() without the fast path.
WaitAlwaysLocks(c) == TRUE

\* wait(): self.count.load(Relaxed) > 0, on a u32.
WaitMustLock(c) == c # 0

\* A wait() that parks without looking at the flag.
WaitAlwaysSleeps(s) == TRUE

\* A wait() that never parks, whatever the flag says.
WaitNeverSleeps(s) == FALSE

\* wait(): if !*status_guard { self.var.wait(..) }
WaitMustSleep(s) == ~s

\* A countdown() that takes two off the counter.
FetchSubTwo(c) == c - 2

\* A countdown() that counts up.
FetchAdd(c) == c + 1

\* countdown(): what fetch_sub(1) leaves in the counter (it wraps below 0).
FetchSub(c) == c - 1

\* countdown(): the u32 subtraction "fetch_sub(..) - 1" overflows when the
\* previous value is 0: a panic with overflow checks on, u32::MAX with them off.
SubOverflows(prev) == prev = 0

\* A countdown() in which every call releases.
CountdownReleasesAlways(c) == TRUE

\* A countdown() that releases one call early.
CountdownReleasesEarly(c) == c = 0 \/ c = 1

\* countdown(): cur_count <= 0, on a u32.
CountdownReleases(c) == c = 0

\* Where a thread goes when the countdown() or wait() it called returns.
AfterCountdown(t) == IF t \in Workers THEN "recv" ELSE "idle"

Sleepers(l) == {t \in Threads : pc[t] = "w_sleep" /\ cur[t].latch = l}

\* A thread is between two calls.
Ready(t) == pc[t] \in {"idle", "w_returned"}

\* wait(), first step: the load of the counter; the fast path returns.
WaitLoad(t, l) ==
    /\ Ready(t)
    /\ latch[l].live
    /\ cur' = [cur EXCEPT ![t] = [NoLocals EXCEPT !.latch = l]]
    /\ pc' = [pc EXCEPT ![t] =
                IF WaitMustLock(latch[l].count) THEN "w_lock" ELSE "w_returned"]
    /\ UNCHANGED <<latch, poolVars, calls, execVars>>

\* wait(): self.status.lock()
WaitLock(t) ==
    /\ pc[t] = "w_lock"
    /\ latch[cur[t].latch].mutex = NoThread
    /\ latch' = [latch EXCEPT ![cur[t].latch].mutex = t]
    /\ pc' = [pc EXCEPT ![t] = "w_check"]
    /\ UNCHANGED <<cur, poolVars, calls, execVars>>

\* wait(): the check of the flag under the mutex; Condvar::wait releases the
\* mutex and parks the thread in one step, otherwise the guard is dropped.
WaitCheck(t) ==
    /\ pc[t] = "w_check"
    /\ latch' = [latch EXCEPT ![cur[t].latch].mutex = NoThread]
    /\ pc' = [pc EXCEPT ![t] =
                IF WaitMustSleep(latch[cur[t].latch].status)
                THEN "w_sleep" ELSE "w_returned"]
    /\ UNCHANGED <<cur, poolVars, calls, execVars>>

\* wait(): a notified thread takes the mutex back, then drops the guard.
\* parking_lot's Condvar has no spurious wakeups: only notify_all leads here.
WaitWake(t) ==
    /\ pc[t] = "w_woken"
    /\ latch[cur[t].latch].mutex = NoThread
    /\ pc' = [pc EXCEPT ![t] = "w_returned"]
    /\ UNCHANGED <<cur, latch, poolVars, calls, execVars>>

\* countdown(), first step: the atomic decrement and the test of its result.
\* The pc after it, given the counter before it and whether the build traps.
CountdownNext(t, prev, traps) ==
    IF SubOverflows(prev) /\ traps THEN "panicked"
    ELSE IF CountdownReleases(FetchSub(prev)) THEN "cd_lock"
    ELSE AfterCountdown(t)

\* A thread's locals after a step that takes it to pc p: they are gone once
\* the call has returned (or the thread has ended).
LocalsAt(t, p) == IF p \in {"cd_lock"} THEN cur[t] ELSE NoLocals

CdFetchSub(t) ==
    /\ pc[t] = "cd_fetch"
    /\ LET l == cur[t].latch
           prev == latch[l].count
       IN /\ latch' = [latch EXCEPT ![l].count = FetchSub(prev)]
          /\ \E traps \in BOOLEAN :
                /\ pc' = [pc EXCEPT ![t] = CountdownNext(t, prev, traps)]
                /\ cur' = [cur EXCEPT ![t] =
                             LocalsAt(t, CountdownNext(t, prev, traps))]
    /\ UNCHANGED <<poolVars, calls, execVars>>

\* countdown(): self.status.lock()
CdLock(t) ==
    /\ pc[t] = "cd_lock"
    /\ latch[cur[t].latch].mutex = NoThread
    /\ latch' = [latch EXCEPT ![cur[t].latch].mutex = t]
    /\ pc' = [pc EXCEPT ![t] = "cd_notify"]
    /\ UNCHANGED <<cur, poolVars, calls, execVars>>

\* A notify_one in the place of notify_all: one parked waiter is woken.
NotifiedOne(t, l) ==
    [u \in Threads |-> IF u = t THEN AfterCountdown(t)
                       ELSE IF u \in Sleepers(l)
                               /\ \A v \in Sleepers(l) : v[2] >= u[2]
                            THEN "w_woken"
                       ELSE pc[u]]

\* The pcs after notify_all by thread t on latch l: every parked waiter of l
\* is woken, and t returns from countdown().
Notified(t, l) ==
    [u \in Threads |-> IF u = t THEN AfterCountdown(t)
                       ELSE IF u \in Sleepers(l) THEN "w_woken"
                       ELSE pc[u]]

\* countdown(): *status_guard = true; notify_all(); the guard is dropped.
CdNotify(t) ==
    /\ pc[t] = "cd_notify"
    /\ latch' = [latch EXCEPT ![cur[t].latch].status = TRUE,
                              ![cur[t].latch].mutex = NoThread]
    /\ pc' = Notified(t, cur[t].latch)
    /\ cur' = [cur EXCEPT ![t] = NoLocals]
    /\ UNCHANGED <<poolVars, calls, execVars>>

\* ------------------------------------------------------------- channel
\* The Receiver clones still alive: one per worker thread that has not ended
\* (ThreadPool::new drops its own Receiver when it returns).
Receivers == Cardinality({w \in Workers : pc[w] \notin {"none", "exited", "panicked"}})

\* A channel that queues a command ahead of the ones already there.
ChanSendFirst(q, cmd, rcv) == IF rcv > 0 THEN <<cmd>> \o q ELSE q

\* Sender::send: the command is queued, or, with every Receiver gone, handed
\* back in a SendError, which "let _ =" drops.
ChanSend(q, cmd, rcv) == IF rcv > 0 THEN Append(q, cmd) ELSE q

\* A recv that leaves the command it returned in the channel.
ChanRestKeeps(q) == q

\* Receiver::recv: the channel after its head has been taken.
ChanRest(q) == Tail(q)

\* A pool that turns every submission down.
AcceptsNever(d) == FALSE

\* A pool that never looks at its liveness flag.
AcceptsAlways(d) == TRUE

\* send / send_all: "if !self.dead".
Accepts(d) == ~d

\* ------------------------------------------------------------- worker
\* A factory that hands every thread the same context.
SameContext(k) == 1

\* thread_init(): the k-th call returns a value of its own (a C, owned by the
\* caller), named here by the number of the call.
FreshContext(k) == k

\* thread::spawn closure: let mut context = thread_init();
WorkerInit(w) ==
    /\ pc[w] = "init"
    /\ inits' = inits + 1
    /\ context' = [context EXCEPT ![w] = FreshContext(inits + 1)]
    /\ pc' = [pc EXCEPT ![w] = "recv"]
    /\ UNCHANGED <<threadcount, dead, dropped, chan, sub, started, finished,
                   dies, cur, latch, calls, execVars>>

\* A worker loop that ends at whatever it receives.
RecvPcStopsAlways(cmd) == "exited"

\* The worker's state after thread_recv.recv() returned cmd: the loop goes on
\* for Ok(Command(..)) and ends for anything else.
RecvPc(cmd) == IF cmd.kind = "Command" THEN "run" ELSE "exited"

\* while let Ok(ThreadCommand::Command(t, countdown)) = thread_recv.recv():
\* recv blocks on an empty channel while a Sender lives and fails once the
\* pool (the only Sender) is gone and the channel is empty.
WorkerRecv(w) ==
    /\ pc[w] = "recv"
    /\ chan # <<>> \/ dropped
    /\ IF chan = <<>>
       THEN /\ pc' = [pc EXCEPT ![w] = "exited"]
            /\ UNCHANGED <<cur, chan, started>>
       ELSE /\ pc' = [pc EXCEPT ![w] = RecvPc(Head(chan))]
            /\ chan' = ChanRest(chan)
            /\ IF Head(chan).kind = "Command"
               THEN /\ cur' = [cur EXCEPT ![w] =
                          [NoLocals EXCEPT !.task = Head(chan).task,
                                           !.latch = Head(chan).latch,
                                           !.ctx = context[w]]]
                    /\ started' = Append(started, Head(chan).task)
               ELSE UNCHANGED <<cur, started>>
    /\ UNCHANGED <<threadcount, inits, context, dead, dropped, latch, sub, finished, dies,
                   calls, execVars>>

\* thread_fn(t, &mut context), begun at WorkerRecv with cur[w].ctx the context
\* passed, returns; "if let Some(c) = countdown" follows
\* (send and send_all always pass Some).
WorkerFinish(w) ==
    /\ pc[w] = "run"
    /\ finished' = [finished EXCEPT ![cur[w].task] = @ + 1]
    /\ pc' = [pc EXCEPT ![w] = "cd_fetch"]
    /\ UNCHANGED <<threadcount, inits, context, dead, dropped, chan, latch, cur, sub, started,
                   dies, calls, execVars>>

\* ------------------------------------------------------------- pool owner
\* What send / send_all hand back for a rejected batch.
Rejected(tasks) == tasks

\* ThreadPool::send(task)
Send ==
    /\ Ready(Main)
    /\ ~dropped
    /\ Len(sub) < MaxBatches
    /\ LET b == Len(sub) + 1
           tasks == BatchOf(b, 1)
       IN IF Accepts(dead)
          THEN /\ latch' = [latch EXCEPT ![b] = LatchNew(1)]
               /\ chan' = ChanSend(chan, Command(tasks[1], b), Receivers)
               /\ sub' = Append(sub, [tasks |-> tasks, res |-> "Ok",
                                      returned |-> <<>>])
          ELSE /\ sub' = Append(sub, [tasks |-> tasks, res |-> "Err",
                                      returned |-> Rejected(tasks)])
               /\ UNCHANGED <<latch, chan>>
    /\ pc' = [pc EXCEPT ![Main] = "idle"]
    /\ cur' = [cur EXCEPT ![Main] = NoLocals]
    /\ UNCHANGED <<threadcount, inits, context, dead, dropped, started, finished, dies,
                   calls, execVars>>

\* ThreadPool::send_all(tasks), up to its loop: the test of dead and the latch
\* sized to the batch.  An empty batch returns Ok at once.
SendAllBegin(n) ==
    /\ Ready(Main)
    /\ ~dropped
    /\ Len(sub) < MaxBatches
    /\ LET b == Len(sub) + 1
           tasks == BatchOf(b, n)
       IN IF Accepts(dead)
          THEN /\ latch' = [latch EXCEPT ![b] = LatchNew(Len(tasks))]
               /\ sub' = Append(sub, [tasks |-> tasks,
                                      res |-> IF n = 0 THEN "Ok" ELSE "pending",
                                      returned |-> <<>>])
               /\ pc' = [pc EXCEPT ![Main] = IF n = 0 THEN "idle" ELSE "send_all"]
               /\ cur' = [cur EXCEPT ![Main] =
                            IF n = 0 THEN NoLocals
                            ELSE [NoLocals EXCEPT !.latch = b, !.i = 1, !.n = n]]
          ELSE /\ sub' = Append(sub, [tasks |-> tasks, res |-> "Err",
                                      returned |-> Rejected(tasks)])
               /\ pc' = [pc EXCEPT ![Main] = "idle"]
               /\ cur' = [cur EXCEPT ![Main] = NoLocals]
               /\ UNCHANGED latch
    /\ UNCHANGED <<threadcount, inits, context, dead, dropped, chan, started, finished, dies,
                   calls, execVars>>

\* send_all: one turn of "for task in tasks"; Ok(Wait::Latch(latch)) after the
\* last one.
SendAllStep ==
    /\ pc[Main] = "send_all"
    /\ LET b == cur[Main].latch
           i == cur[Main].i
       IN /\ chan' = ChanSend(chan, Command(sub[b].tasks[i], b), Receivers)
          /\ IF i = cur[Main].n
             THEN /\ sub' = [sub EXCEPT ![b].res = "Ok"]
                  /\ pc' = [pc EXCEPT ![Main] = "idle"]
                  /\ cur' = [cur EXCEPT ![Main] = NoLocals]
             ELSE /\ cur' = [cur EXCEPT ![Main].i = i + 1]
                  /\ UNCHANGED <<sub, pc>>
    /\ UNCHANGED <<threadcount, inits, context, dead, dropped, latch, started, finished, dies,
                   calls, execVars>>

\* A die() that flips the flag instead of setting it.
MarkDeadToggles(d) == ~d

\* die: self.dead = true.
MarkDead(d) == TRUE

\* ThreadPool::die(), up to its loop: self.dead = true.  how is "die" for a
\* call of die() and "drop" for the call made by Drop::drop.
DieBegin(how) ==
    /\ Ready(Main)
    /\ ~dropped
    /\ dead' = MarkDead(dead)
    /\ IF threadcount = 0
       THEN /\ pc' = [pc EXCEPT ![Main] = "idle"]
            /\ dropped' = (how = "drop")
            /\ cur' = [cur EXCEPT ![Main] = NoLocals]
       ELSE /\ pc' = [pc EXCEPT ![Main] = how]
            /\ cur' = [cur EXCEPT ![Main] = [NoLocals EXCEPT !.i = 1]]
            /\ UNCHANGED dropped
    /\ UNCHANGED <<threadcount, inits, context, chan, latch, sub, started, finished, calls,
                   execVars>>

\* pool.die()
DieCall ==
    /\ dies < MaxDies
    /\ dies' = dies + 1
    /\ DieBegin("die")

\* impl Drop for ThreadPool: self.die(), then the fields (the Sender) go.
DropCall ==
    /\ UNCHANGED dies
    /\ DieBegin("drop")

\* A die() whose loop ends after its first turn.
LastDieAtOnce(i, n) == TRUE

\* die: "for _ in 0..self.threadcount" is at its last turn, the i-th of n.
LastDie(i, n) == i = n

\* die: one turn of "for _ in 0..self.threadcount"; after the last one die
\* returns, and drop ends with it.
DieStep ==
    /\ pc[Main] \in {"die", "drop"}
    /\ chan' = ChanSend(chan, Die, Receivers)
    /\ IF LastDie(cur[Main].i, threadcount)
       THEN /\ pc' = [pc EXCEPT ![Main] = "idle"]
            /\ dropped' = (pc[Main] = "drop")
            /\ cur' = [cur EXCEPT ![Main] = NoLocals]
       ELSE /\ cur' = [cur EXCEPT ![Main].i = @ + 1]
            /\ UNCHANGED <<pc, dropped>>
    /\ UNCHANGED <<threadcount, inits, context, dead, latch, sub, started, finished, dies,
                   calls, execVars>>

\* Wait::wait on the handle of submission l, by the owner or by a thread that
\* holds a clone: Wait::Latch(latch) => latch.wait().
HandleWait(t, l) ==
    /\ l \in 1..Len(sub)
    /\ sub[l].res = "Ok"
    /\ WaitLoad(t, l)

\* ------------------------------------------------------------- Spec
\* The state ThreadPool::new returns in: threadcount threads spawned, none of
\* which has run yet, an empty channel, dead = false.
Init ==
    /\ threadcount \in 0..MaxThreads
    /\ dead = FALSE
    /\ dropped = FALSE
    /\ chan = <<>>
    /\ latch = [l \in LatchIds |-> NoLatch]
    /\ pc = [t \in Threads |->
               IF t \in Workers
               THEN (IF t[2] <= threadcount THEN "init" ELSE "none")
               ELSE IF t \in Counters THEN "none" ELSE "idle"]
    /\ cur = [t \in Threads |-> NoLocals]
    /\ sub = <<>>
    /\ started = <<>>
    /\ finished = [t \in Tasks |-> 0]
    /\ dies = 0
    /\ inits = 0
    /\ context = [w \in Workers |-> NoContext]
    /\ calls = 0
    /\ commands = <<>>
    /\ log = <<>>
    /\ execResult = "none"

WorkerStep(w) ==
    \/ WorkerInit(w)
    \/ WorkerRecv(w)
    \/ WorkerFinish(w)
    \/ CdFetchSub(w)
    \/ CdLock(w)
    \/ CdNotify(w)

WaiterStep(t) ==
    \/ WaitLock(t)
    \/ WaitCheck(t)
    \/ WaitWake(t)

OwnerStep ==
    \/ SendAllStep
    \/ DieStep

\* The owner of the pool makes the calls, one after the other, and waits on
\* the handles it got; the workers run beside it.
Next ==
    \/ \E w \in Workers : WorkerStep(w)
    \/ WaiterStep(Main)
    \/ \E l \in LatchIds : HandleWait(Main, l)
    \/ Send
    \/ \E n \in 0..MaxBatch : SendAllBegin(n)
    \/ DieCall
    \/ DropCall
    \/ OwnerStep

Spec == Init /\ [][Next]_vars

\* Every thread that can take a step of the code it is in is scheduled, and a
\* thread that asks for the mutex gets it in the end (parking_lot's Mutex is
\* eventually fair); the owner's choice of what to call next is under no
\* obligation.
FairSpec ==
    /\ Spec
    /\ \A w \in Workers : SF_vars(WorkerStep(w))
    /\ SF_vars(WaiterStep(Main))
    /\ WF_vars(OwnerStep)

\* ------------------------------------------------------------- ShareSpec
\* A live pool whose owner submits batches with send_all and hands clones of
\* the handles (Wait is Clone, the latch an Arc) to observer threads: the
\* owner and the observers wait on them while the workers run.
ShareNext ==
    \/ \E w \in Workers : WorkerStep(w)
    \/ \E t \in Waiters : WaiterStep(t)
    \/ \E t \in Waiters : \E l \in LatchIds : HandleWait(t, l)
    \/ \E n \in 0..MaxBatch : SendAllBegin(n)
    \/ SendAllStep

ShareSpec == Init /\ [][ShareNext]_vars

\* Fairness as in FairSpec, for every thread that waits.
ShareFairSpec ==
    /\ ShareSpec
    /\ \A w \in Workers : SF_vars(WorkerStep(w))
    /\ \A t \in Waiters : SF_vars(WaiterStep(t))
    /\ WF_vars(SendAllStep)

\* ------------------------------------------------------------- LatchSpec
\* One CountdownLatch, constructed by new(n) and shared (an Arc) by threads
\* that call countdown() and threads that call wait().
TheLatch == 1

LatchInit ==
    /\ threadcount = 0
    /\ dead = FALSE
    /\ dropped = FALSE
    /\ chan = <<>>
    /\ \E n \in 0..MaxCount :
          latch = [l \in LatchIds |-> IF l = TheLatch THEN LatchNew(n) ELSE NoLatch]
    /\ pc = [t \in Threads |-> IF t \in Workers THEN "none" ELSE "idle"]
    /\ cur = [t \in Threads |-> NoLocals]
    /\ sub = <<>>
    /\ started = <<>>
    /\ finished = [t \in Tasks |-> 0]
    /\ dies = 0
    /\ inits = 0
    /\ context = [w \in Workers |-> NoContext]
    /\ calls = 0
    /\ commands = <<>>
    /\ log = <<>>
    /\ execResult = "none"

\* A thread calls countdown() on the latch; at most MaxExtra calls are made
\* beyond the count the latch was constructed with.
CountdownCall(t) ==
    /\ pc[t] = "idle"
    /\ calls < latch[TheLatch].init + MaxExtra
    /\ calls' = calls + 1
    /\ pc' = [pc EXCEPT ![t] = "cd_fetch"]
    /\ cur' = [cur EXCEPT ![t] = [NoLocals EXCEPT !.latch = TheLatch]]
    /\ UNCHANGED <<latch, poolVars, execVars>>

CounterStep(t) ==
    \/ CdFetchSub(t)
    \/ CdLock(t)
    \/ CdNotify(t)

LatchNext ==
    \/ \E t \in Counters : CountdownCall(t)
    \/ \E t \in Counters : CounterStep(t)
    \/ \E t \in Waiters : WaitLoad(t, TheLatch)
    \/ \E t \in Waiters : WaiterStep(t)

LatchSpec == LatchInit /\ [][LatchNext]_vars

\* Every thread inside countdown() or wait() is scheduled, and a thread that
\* asks for the mutex gets it in the end, however often others take it
\* (parking_lot's Mutex is eventually fair).
LatchFairSpec ==
    /\ LatchSpec
    /\ \A t \in Counters : SF_vars(CounterStep(t))
    /\ \A t \in Waiters : SF_vars(WaiterStep(t))

\* ------------------------------------------------------------- ExecSpec
\* The batches exec is given: every sequence of at most MaxLen task values.
Values == 1..MaxValue
Batches == UNION {[1..n -> Values] : n \in 0..MaxLen}

ExecInit ==
    /\ threadcount = 0
    /\ dead = FALSE
    /\ dropped = FALSE
    /\ chan = <<>>
    /\ latch = [l \in LatchIds |-> NoLatch]
    /\ pc = [t \in Threads |-> IF t = Main THEN "idle" ELSE "none"]
    /\ cur = [t \in Threads |-> NoLocals]
    /\ sub = <<>>
    /\ started = <<>>
    /\ finished = [t \in Tasks |-> 0]
    /\ dies = 0
    /\ inits = 0
    /\ context = [w \in Workers |-> NoContext]
    /\ calls = 0
    /\ commands \in Batches
    /\ log = <<>>
    /\ execResult = "none"

\* A callback that is handed the batch from its other end.
NextCommandBackwards(cmds, i) == cmds[Len(cmds) + 1 - i]

\* A loop that hands its first command to the callback on every turn.
NextCommandFirst(cmds, i) == cmds[1]

\* "for cmd in commands": the command of the i-th turn.
NextCommand(cmds, i) == cmds[i]

\* BranchedExecutor::exec, Self::ThisThread(f) arm: the call.
ExecBegin ==
    /\ pc[Main] = "idle"
    /\ execResult = "none"
    /\ pc' = [pc EXCEPT ![Main] = "exec"]
    /\ cur' = [cur EXCEPT ![Main] = [NoLocals EXCEPT !.i = 1]]
    /\ UNCHANGED <<latch, poolVars, calls, execVars>>

\* One turn of the loop: f(cmd), on the calling thread.
ExecCall ==
    /\ pc[Main] = "exec"
    /\ cur[Main].i <= Len(commands)
    /\ log' = Append(log, NextCommand(commands, cur[Main].i))
    /\ cur' = [cur EXCEPT ![Main].i = @ + 1]
    /\ UNCHANGED <<pc, latch, poolVars, calls, commands, execResult>>

\* After the loop: Ok(Wait::Noop).
ExecReturn ==
    /\ pc[Main] = "exec"
    /\ cur[Main].i > Len(commands)
    /\ execResult' = "Ok(Noop)"
    /\ pc' = [pc EXCEPT ![Main] = "exec_returned"]
    /\ cur' = [cur EXCEPT ![Main] = NoLocals]
    /\ UNCHANGED <<latch, poolVars, calls, commands, log>>

\* Wait::wait, Self::Noop arm: ().
NoopWait ==
    /\ pc[Main] = "exec_returned"
    /\ execResult = "Ok(Noop)"
    /\ pc' = [pc EXCEPT ![Main] = "w_returned"]
    /\ UNCHANGED <<cur, latch, poolVars, calls, execVars>>

ExecNext ==
    \/ ExecBegin
    \/ ExecCall
    \/ ExecReturn
    \/ NoopWait

ExecSpec == ExecInit /\ [][ExecNext]_vars

\* ------------------------------------------------------------- DualSpec
\* run_command builds one of the two executors and calls exec on the batch.
\* Here the owner holds both, a ThisThread and a Pooled over a pool of at
\* least one thread, and gives each the same batch, in either order; the pool
\* may have been told to die before.
DualInit ==
    /\ threadcount \in 1..MaxThreads
    /\ dead = FALSE
    /\ dropped = FALSE
    /\ chan = <<>>
    /\ latch = [l \in LatchIds |-> NoLatch]
    /\ pc = [t \in Threads |->
               IF t \in Workers
               THEN (IF t[2] <= threadcount THEN "init" ELSE "none")
               ELSE IF t = Main THEN "idle" ELSE "none"]
    /\ cur = [t \in Threads |-> NoLocals]
    /\ sub = <<>>
    /\ started = <<>>
    /\ finished = [t \in Tasks |-> 0]
    /\ dies = 0
    /\ inits = 0
    /\ context = [w \in Workers |-> NoContext]
    /\ calls = 0
    /\ commands \in {BatchOf(1, n) : n \in 0..MaxBatch}
    /\ log = <<>>
    /\ execResult = "none"

\* BranchedExecutor::exec, Self::Pooled(pool) arm: pool.send_all(commands).
ExecPooled ==
    /\ sub = <<>>
    /\ SendAllBegin(Len(commands))

DualNext ==
    \/ \E w \in Workers : WorkerStep(w)
    \/ ExecPooled
    \/ OwnerStep
    \/ HandleWait(Main, 1)
    \/ WaiterStep(Main)
    \/ DieCall
    \/ ExecBegin
    \/ ExecCall
    \/ ExecReturn
    \/ NoopWait

DualSpec == DualInit /\ [][DualNext]_vars

\* ------------------------------------------------------------- statements
Subs == 1..Len(sub)
TasksOf(b) == {sub[b].tasks[i] : i \in 1..Len(sub[b].tasks)}
InChan(task) == \E k \in 1..Len(chan) : chan[k].kind = "Command" /\ chan[k].task = task
Invocations(task) == Cardinality({k \in 1..Len(started) : started[k] = task})
BatchInvocations(b) == Cardinality({k \in 1..Len(started) : started[k][1] = b})
BatchCompleted(b) == \A task \in TasksOf(b) : finished[task] = 1
Returned(t, b) == pc[t] = "w_returned" /\ cur[t].latch = b

\* C1: a wait() on the handle of a send_all of N tasks has returned only if
\* exactly N worker-function invocations of that batch were made and every
\* one of them has returned.
C1_WaitOnlyAfterBatch ==
    \A t \in Waiters : \A b \in Subs :
        Returned(t, b) =>
            /\ BatchInvocations(b) = Len(sub[b].tasks)
            /\ BatchCompleted(b)
            /\ \A task \in TasksOf(b) :
                  /\ ~InChan(task)
                  /\ \A w \in Workers : ~(pc[w] = "run" /\ cur[w].task = task)

C1_Witness ==
    /\ threadcount = 2
    /\ \E b \in Subs : Len(sub[b].tasks) = 2 /\ Returned(Main, b)
                       /\ BatchCompleted(b)

\* C2: no task is invoked twice and none is held by two workers; a task in
\* the queue is always dequeued and run to completion, once.
C2_NeverTwice ==
    /\ \A task \in Tasks : Invocations(task) <= 1 /\ finished[task] <= 1
    /\ \A w1, w2 \in Workers :
          (w1 # w2 /\ pc[w1] = "run" /\ pc[w2] = "run") => cur[w1].task # cur[w2].task

\* C2, whole: never twice in any state, and never skipped under FairSpec.
C2_ExactlyOnce ==
    /\ []C2_NeverTwice
    /\ \A task \in Tasks : InChan(task) ~> (finished[task] = 1)

C2_Witness ==
    /\ threadcount = 2
    /\ \A w \in Workers : pc[w] = "exited"
    /\ \E b \in Subs : Len(sub[b].tasks) = 2 /\ BatchCompleted(b)

\* C3: a send or send_all made once die() has set dead returns Err with the whole
\* batch in its order, queues nothing and creates no latch; no task of a
\* rejected batch is ever queued or invoked.
C3_RejectedStep ==
    (dead /\ Len(sub') = Len(sub) + 1) =>
        /\ sub'[Len(sub')].res = "Err"
        /\ sub'[Len(sub')].returned = sub'[Len(sub')].tasks
        /\ chan' = chan
        /\ latch' = latch

C3_RejectedInert ==
    \A b \in Subs : sub[b].res = "Err" =>
        /\ ~latch[b].live
        /\ BatchInvocations(b) = 0
        /\ \A task \in TasksOf(b) : ~InChan(task)

\* C3, whole: every rejecting step is as above and a rejected batch stays
\* out of the queue and out of the workers.
C3_RejectedWhenDead == [][C3_RejectedStep]_vars /\ []C3_RejectedInert

C3_Witness ==
    /\ dead
    /\ \E b \in Subs : sub[b].res = "Err" /\ Len(sub[b].returned) = 2
    /\ \E b \in Subs : sub[b].res = "Err" /\ Len(sub[b].returned) = 1

\* C4: once send or send_all has returned, every task of the batch is in the
\* Err value, in the queue, or has been taken by a worker.
C4_NoTaskLost ==
    \A b \in Subs : sub[b].res # "pending" =>
        \A task \in TasksOf(b) :
            \/ \E i \in 1..Len(sub[b].returned) : sub[b].returned[i] = task
            \/ InChan(task)
            \/ Invocations(task) >= 1

\* C5: drop has returned only if no task is queued or running and every
\* worker thread has ended.
C5_DropJoinsWorkers ==
    dropped =>
        /\ \A w \in Workers : pc[w] \in {"none", "exited"}
        /\ \A task \in Tasks : ~InChan(task)

\* C6: a worker that takes a Die leaves no Command behind in the queue; a
\* task queued when the pool is dead is still run to completion, and the
\* handle of a batch whose tasks were all queued is still released.
AllQueued(b) == \A task \in TasksOf(b) : InChan(task) \/ Invocations(task) >= 1
WaitReturnsAtOnce(l) ==
    ~WaitMustLock(latch[l].count) \/ ~WaitMustSleep(latch[l].status)

C6_DieTakenLast ==
    \A w \in Workers :
        (pc[w] = "recv" /\ pc'[w] = "exited") =>
            \A k \in 1..Len(chan) : chan[k].kind # "Command"

\* C6, whole: the Die is taken last, and what was queued before die() is
\* run and its handle released under FairSpec.
C6_DrainedAfterDie ==
    /\ [][C6_DieTakenLast]_vars
    /\ \A task \in Tasks : (dead /\ InChan(task)) ~> (finished[task] = 1)
    /\ \A b \in LatchIds :
          (dead /\ b \in Subs /\ sub[b].res = "Ok" /\ AllQueued(b))
              ~> WaitReturnsAtOnce(b)

C6_Witness ==
    /\ dead
    /\ \E k \in 1..Len(chan) : chan[k].kind = "Die"
    /\ \E w \in Workers : pc[w] = "cd_notify" /\ Len(sub[cur[w].latch].tasks) = 2

\* The countdown() calls that have done their atomic decrement, and the
\* threads inside wait().
Decrements == calls - Cardinality({t \in Counters : pc[t] = "cd_fetch"})
InWait(t) == pc[t] \in {"w_lock", "w_check", "w_sleep", "w_woken"}

\* C7: on a latch constructed with n > 0, a wait() has returned only if n
\* countdown() calls have decremented the counter, a wait() that found the
\* counter above 0 returns only once the flag is set by the n-th of them, and
\* after the n-th decrement every thread inside wait() gets out of it.
C7_BlockedBelowN ==
    \A t \in Waiters :
        (latch[TheLatch].init > 0 /\ pc[t] = "w_returned") =>
            Decrements >= latch[TheLatch].init

C7_SlowPathNeedsFlag ==
    \A t \in Waiters :
        (InWait(t) /\ pc'[t] = "w_returned") => latch'[TheLatch].status

\* C7, whole: blocked below n, woken at n (under LatchFairSpec).
C7_LatchOfN ==
    /\ []C7_BlockedBelowN
    /\ [][C7_SlowPathNeedsFlag]_vars
    /\ \A t \in Waiters :
          (latch[TheLatch].init > 0 /\ Decrements >= latch[TheLatch].init
             /\ InWait(t)) ~> (pc[t] = "w_returned")

C7_Witness ==
    /\ latch[TheLatch].init = 3
    /\ Decrements = 3
    /\ pc[Main] = "w_woken"
    /\ pc[<<"observer", 1>>] = "w_returned"

\* C8: a wait() called on a latch whose counter is 0 returns in its first
\* step: the thread never gets to lock the mutex or to park on the condition
\* variable, and the latch is left as it was.
C8_FastPathStep ==
    \A t \in Waiters :
        (Ready(t) /\ latch[TheLatch].count = 0 /\ <<pc'[t], cur'[t]>> # <<pc[t], cur[t]>>)
            => (pc'[t] = "w_returned" /\ latch' = latch)

\* C8, whole: every step of the behaviour is a fast-path step when the
\* counter is 0.
C8_FastPath == [][C8_FastPathStep]_vars

C8_Witness ==
    /\ latch[TheLatch].init = 0
    /\ calls = 0
    /\ pc[Main] = "w_returned"
    /\ latch[TheLatch] = LatchNew(0)

\* C9: countdown() calls beyond the count never fail, and once they are all
\* done a wait() on the latch returns.
CountdownsDone == \A t \in Counters : pc[t] \in {"idle", "panicked"}

C9_OverCountdownTolerated ==
    /\ \A t \in Counters : pc[t] # "panicked"
    /\ (calls > latch[TheLatch].init /\ CountdownsDone) => WaitReturnsAtOnce(TheLatch)

\* C10: ThisThread.exec calls the callback on the tasks in their order, one
\* at a time, all of them before it returns Ok(Wait::Noop); the wait() on that
\* handle returns in its first step.
C10_InOrder ==
    /\ Len(log) <= Len(commands)
    /\ log = SubSeq(commands, 1, Len(log))
    /\ pc[Main] = "exec" => Len(log) = cur[Main].i - 1
    /\ execResult # "none" => (execResult = "Ok(Noop)" /\ log = commands)

C10_NoopWaitStep ==
    (pc[Main] = "exec_returned" /\ pc'[Main] # pc[Main]) =>
        (pc'[Main] = "w_returned" /\ log' = commands)

\* C10, whole: in order and complete at every state, and the no-op wait
\* returns in one step.
C10_InlineExec == []C10_InOrder /\ [][C10_NoopWaitStep]_vars

C10_Witness ==
    /\ commands = <<2, 1, 2>>
    /\ log = commands
    /\ pc[Main] = "w_returned"

\* The die() calls begun so far (the one of drop included), the Commands of a
\* channel, and the workers that have left their loop.
DieCallsBegun == dies + (IF pc[Main] = "drop" \/ dropped THEN 1 ELSE 0)
CommandsIn(q) == SelectSeq(q, LAMBDA c : c.kind = "Command")
Spawned == {w \in Workers : pc[w] # "none"}
Exited == {w \in Workers : pc[w] = "exited"}
InDie == pc[Main] \in {"die", "drop"}

\* C11: a step of a second (or later) die() call leaves the pool dead and
\* touches nothing but the Die commands in the channel: the submissions and
\* their results, the latches, the Commands queued, the invocations made and
\* the workers' positions are as they were.
C11_SecondDieStep ==
    (/\ DieCallsBegun' >= 2
     /\ InDie \/ InDie'
     /\ pc'[Main] # pc[Main] \/ cur'[Main] # cur[Main])
    =>  /\ dead'
        /\ sub' = sub
        /\ latch' = latch
        /\ started' = started
        /\ finished' = finished
        /\ CommandsIn(chan') = CommandsIn(chan)
        /\ \A w \in Workers : pc'[w] = pc[w]

\* C11, whole: the second die() is inert but for its Die commands, the pool
\* stays dead, and under FairSpec the workers all leave and the queued tasks
\* all finish as after one call; the surplus Die commands are never taken.
C11_DieIdempotent ==
    /\ [][C11_SecondDieStep]_vars
    /\ [](DieCallsBegun >= 2 => dead)
    /\ [](Exited = Spawned => CommandsIn(chan) = <<>>)
    /\ (DieCallsBegun >= 2) ~>
          (Exited = Spawned /\ \A task \in Tasks : Invocations(task) = finished[task])

C11_Witness ==
    /\ threadcount = 2
    /\ dies = 1
    /\ dropped
    /\ Exited = Spawned
    /\ Len(chan) = 2
    /\ \E b \in Subs : Len(sub[b].tasks) = 2 /\ BatchCompleted(b)

DiesIn(q) == Len(SelectSeq(q, LAMBDA c : c.kind = "Die"))

\* C12, one exit: the step on which worker w leaves its receive loop takes a
\* Die, and nothing else, from the head of the channel of a dead pool.
C12_ExitStep ==
    \A w \in Workers :
        (pc[w] # "exited" /\ pc'[w] = "exited")
        =>  /\ pc[w] = "recv"
            /\ dead
            /\ chan # <<>>
            /\ Head(chan) = Die
            /\ chan' = Tail(chan)
            /\ \A v \in Workers \ {w} : pc'[v] = pc[v]

\* C12: no worker has left its loop while the pool is alive; a worker leaves
\* by taking one Die and takes nothing after it; and once the one die() call
\* has returned, the threadcount Die commands it queued are those taken by
\* the workers that have exited plus those still in the channel.
C12_ExitsOnOneDie ==
    /\ [][C12_ExitStep]_vars
    /\ [](~dead => Exited = {})
    /\ [][\A w \in Exited : pc'[w] = "exited"]_vars
    /\ []((DieCallsBegun = 1 /\ ~InDie)
            => Cardinality(Exited) + DiesIn(chan) = threadcount)

C12_Witness ==
    /\ threadcount = 2
    /\ DieCallsBegun = 1
    /\ ~InDie
    /\ Exited = Spawned
    /\ chan = <<>>
    /\ Len(started) >= 2

\* C13: under FairSpec (every invocation begun returns, every thread that can
\* run does), once die() has marked the pool dead, by a call of die() or by
\* drop, every one of the threadcount worker threads leaves its receive
\* loop, and stays out of it.
C13_NoWorkerLeaked ==
    /\ dead ~> (Cardinality(Exited) = threadcount)
    /\ [][Cardinality(Exited') >= Cardinality(Exited)]_vars

C13_Witness ==
    /\ threadcount = 2
    /\ dead
    /\ ~dropped
    /\ pc[Main] = "idle"
    /\ Cardinality(Exited) = threadcount
    /\ \E task \in Tasks : finished[task] = 1

\* C14, the notify: the step on which a countdown() sets the flag wakes every
\* thread parked on that latch, and it is the decrement to zero of that latch.
C14_NotifyStep ==
    \A w \in Workers :
        (pc[w] = "cd_notify" /\ pc'[w] # "cd_notify")
        =>  /\ latch'[cur[w].latch].status
            /\ \A t \in Sleepers(cur[w].latch) : pc'[t] = "w_woken"

\* C14: with the owner and the observers waiting on one handle while the
\* workers run, no thread is parked on a latch whose flag is set, the final
\* countdown wakes all the parked threads at once, and under ShareFairSpec a
\* thread inside wait() on a batch whose tasks have all returned comes out.
C14_Shareable ==
    /\ [][C14_NotifyStep]_vars
    /\ [](\A l \in LatchIds : (latch[l].live /\ latch[l].status) => Sleepers(l) = {})
    /\ \A t \in Waiters : \A b \in LatchIds :
          (b \in Subs /\ InWait(t) /\ cur[t].latch = b /\ BatchCompleted(b))
          ~> Returned(t, b)

\* Both threads were parked on the latch of one batch of two tasks, and the
\* final countdown has just woken both.
C14_Witness ==
    \E b \in Subs :
        /\ Len(sub[b].tasks) = 2
        /\ latch[b].status
        /\ \A t \in Waiters : pc[t] = "w_woken" /\ cur[t].latch = b

Occurrences(q, x) == Cardinality({k \in 1..Len(q) : q[k] = x})
InBatch(task) == \E i \in 1..Len(commands) : commands[i] = task

\* C15, ThisThread: once exec has returned (its handle is a Noop), the
\* callback has been invoked once for every task of the batch and for
\* nothing else.
C15_ThisThreadOnce ==
    execResult = "Ok(Noop)" =>
        \A task \in Tasks : Occurrences(log, task) = (IF InBatch(task) THEN 1 ELSE 0)

\* C15, Pooled: the submission is the batch; a rejected one hands the batch
\* back and runs nothing, an accepted one carries a latch of the batch's
\* size; once the handle has been waited on, the worker function has been
\* invoked once, and has returned, for every task of the batch and for
\* nothing else.
C15_PooledOnce ==
    sub # <<>> =>
        /\ sub[1].tasks = commands
        /\ sub[1].res = "Err" =>
              (sub[1].returned = commands /\ started = <<>> /\ ~latch[1].live)
        /\ sub[1].res = "Ok" =>
              (sub[1].returned = <<>> /\ latch[1].live
                 /\ latch[1].init = Len(commands))
        /\ Returned(Main, 1) =>
              \A task \in Tasks :
                 /\ Invocations(task) = (IF InBatch(task) THEN 1 ELSE 0)
                 /\ finished[task] = Invocations(task)

\* C15, the result of Pooled.exec is that of send_all: Err exactly when the
\* pool was dead at the call.
C15_ExecPooledStep ==
    (sub = <<>> /\ sub' # <<>>) => ((sub'[1].res = "Err") <=> dead)

\* C15: the two strategies given the same batch have, once their handles
\* have been waited on, made the same invocations: one per task.
C15_Interchangeable ==
    /\ [](C15_ThisThreadOnce /\ C15_PooledOnce)
    /\ [][C15_ExecPooledStep]_vars
    /\ []((execResult = "Ok(Noop)" /\ Returned(Main, 1))
            => \A task \in Tasks : Occurrences(log, task) = Invocations(task))

C15_Witness ==
    /\ threadcount = 2
    /\ Len(commands) = 2
    /\ execResult = "Ok(Noop)"
    /\ Len(log) = 2
    /\ Returned(Main, 1)
    /\ Len(started) = 2

C15_RejectedWitness == sub # <<>> /\ sub[1].res = "Err" /\ Len(commands) = 2

Releasing == {t \in Counters : pc[t] \in {"cd_lock", "cd_notify"}}
Released == IF latch[TheLatch].status THEN 1 ELSE 0

\* C17, one call: the atomic decrement of a countdown() sends the call on to
\* the mutex exactly when it left zero in the counter; any other call returns
\* there and then, with the mutex, the flag and the waiters untouched; only a
\* call that took the counter to zero sets the flag and wakes the waiters.
C17_CountdownStep ==
    \A t \in Counters :
        /\ (pc[t] = "cd_fetch" /\ pc'[t] # "cd_fetch") =>
              /\ (pc'[t] = "cd_lock") <=> (latch'[TheLatch].count = 0)
              /\ pc'[t] # "cd_lock" => pc'[t] \in {"idle", "panicked"}
              /\ latch'[TheLatch].mutex = latch[TheLatch].mutex
              /\ latch'[TheLatch].status = latch[TheLatch].status
              /\ \A u \in Waiters : pc'[u] = pc[u]
        /\ (latch'[TheLatch].mutex = t /\ latch[TheLatch].mutex # t) =>
              pc[t] = "cd_lock"
        /\ (pc[t] = "cd_notify" /\ pc'[t] # "cd_notify") =>
              /\ latch'[TheLatch].status
              /\ \A u \in Sleepers(TheLatch) : pc'[u] = "w_woken"

\* C17: of the calls made on a latch of count n, at most one ever goes on to
\* the mutex, and once n >= 1 calls have been made and have returned, one of
\* them has set the flag.
C17_OneReleases ==
    /\ [][C17_CountdownStep]_vars
    /\ [](Cardinality(Releasing) + Released <= 1)
    /\ [](~latch[TheLatch].status => \A u \in Threads : pc[u] # "w_woken")
    /\ []((calls = latch[TheLatch].init /\ calls >= 1 /\ CountdownsDone)
            => (latch[TheLatch].status /\ latch[TheLatch].count = 0))

C17_Witness ==
    /\ latch[TheLatch].init = 3
    /\ calls = 3
    /\ \A t \in Counters : pc[t] = "idle"
    /\ latch[TheLatch].status
    /\ \E u \in Waiters : pc[u] = "w_woken"

\* a <= b on the u32 values that the integers a and b stand for (a negative
\* integer stands for a value above every non-negative one).
ULe(a, b) == IF (a >= 0) = (b >= 0) THEN a <= b ELSE a >= 0

\* C18, one step: on every latch a send or send_all has made, the counter
\* does not go up (as a u32), a flag that is set stays set, and a wait() that
\* would return without blocking still would after the step.
C18_LatchStep ==
    \A l \in LatchIds :
        latch[l].live =>
            /\ latch'[l].live
            /\ latch'[l].init = latch[l].init
            /\ ULe(latch'[l].count, latch[l].count)
            /\ latch[l].status => latch'[l].status
            /\ WaitReturnsAtOnce(l) => WaitReturnsAtOnce(l)'

\* C18: the latch of a batch only moves forward, its flag is set only with
\* the counter at zero, and a wait() begun on a released latch never blocks.
C18_Monotonic ==
    /\ [][C18_LatchStep]_vars
    /\ [](\A l \in LatchIds :
            (latch[l].live /\ latch[l].status) => latch[l].count = 0)
    /\ [](\A l \in LatchIds : \A t \in Waiters :
            (latch[l].live /\ latch[l].status /\ cur[t].latch = l)
               => pc[t] # "w_sleep")

C18_Witness ==
    \E b \in Subs :
        /\ latch[b].init = 2
        /\ latch[b].count = 0
        /\ latch[b].status
        /\ Returned(Main, b)
        /\ dead

\* The place of a task among the dequeued ones (0: not dequeued yet), and its
\* place in the channel (0: not there).
StartedAt(task) ==
    IF Invocations(task) = 0 THEN 0
    ELSE CHOOSE k \in 1..Len(started) : started[k] = task
QueuedAt(task) ==
    IF ~InChan(task) THEN 0
    ELSE CHOOSE k \in 1..Len(chan) :
            chan[k].kind = "Command" /\ chan[k].task = task

\* C19: for tasks at positions i < j of one batch, task j has been dequeued
\* only if task i was dequeued before it, and while both are in the channel
\* task i is ahead of task j.
C19_EnqueueOrderKept ==
    \A b \in Subs : \A i, j \in 1..Len(sub[b].tasks) :
        i < j =>
            /\ StartedAt(<<b, j>>) # 0 =>
                  (StartedAt(<<b, i>>) # 0 /\ StartedAt(<<b, i>>) < StartedAt(<<b, j>>))
            /\ (QueuedAt(<<b, i>>) # 0 /\ QueuedAt(<<b, j>>) # 0) =>
                  QueuedAt(<<b, i>>) < QueuedAt(<<b, j>>)
            /\ QueuedAt(<<b, i>>) # 0 => StartedAt(<<b, j>>) = 0

\* Task 2 of a batch, dequeued after task 1, has returned before it.
C19_Witness ==
    \E b \in Subs :
        /\ Len(sub[b].tasks) = 2
        /\ StartedAt(<<b, 1>>) # 0
        /\ StartedAt(<<b, 1>>) < StartedAt(<<b, 2>>)
        /\ finished[<<b, 2>>] = 1
        /\ finished[<<b, 1>>] = 0

\* The tasks of batch b whose invocation has returned, and the workers that
\* are between the return of an invocation of batch b and its decrement.
Completed(b) == Cardinality({task \in TasksOf(b) : finished[task] >= 1})
AboutToCount(b) == {w \in Workers : pc[w] = "cd_fetch" /\ cur[w].latch = b}

\* C20 as stated: in every reachable state the counter of a batch's latch is
\* the batch size minus the number of tasks of the batch that have returned.
C20_CounterIsRemaining ==
    \A b \in Subs :
        latch[b].live => latch[b].count = Len(sub[b].tasks) - Completed(b)

\* C20, one decrement: the counter of a batch's latch changes only by one
\* downwards, by a worker whose invocation of a task of that batch has
\* returned, and that worker has no decrement left to make for the task.
C20_DecrementStep ==
    \A b \in Subs :
        (latch[b].live /\ latch'[b].count # latch[b].count) =>
            /\ latch'[b].count = latch[b].count - 1
            /\ \E w \in AboutToCount(b) :
                  /\ cur[w].task \in TasksOf(b)
                  /\ finished[cur[w].task] = 1
                  /\ pc'[w] # "cd_fetch"
                  /\ \A v \in Workers \ {w} : pc'[v] = pc[v]

\* C20, amended: the counter is the batch size minus the returned tasks whose
\* worker has made its decrement; a returned task whose worker is still
\* before the decrement has not been counted, so the counter lies between
\* size - completed and size - completed + threadcount, and no two workers
\* are about to decrement for the same task.
C20_CounterTracksCompleted ==
    /\ [][C20_DecrementStep]_vars
    /\ [](\A b \in Subs :
            latch[b].live =>
               /\ latch[b].count =
                     Len(sub[b].tasks) - Completed(b) + Cardinality(AboutToCount(b))
               /\ \A w \in AboutToCount(b) :
                     /\ finished[cur[w].task] = 1
                     /\ \A v \in AboutToCount(b) : cur[v].task = cur[w].task => v = w)

\* Both tasks of a batch have returned and neither has been counted yet.
C20_Witness ==
    \E b \in Subs :
        /\ Len(sub[b].tasks) = 2
        /\ Completed(b) = 2
        /\ Cardinality(AboutToCount(b)) = 2
        /\ latch[b].count = 2

Initialised == {w \in Workers : pc[w] \notin {"none", "init"}}

\* C16, one step: the factory is called by a thread that has not called it,
\* before that thread has received anything; a context once made stays with
\* its thread; and the step that begins an invocation on thread w (it takes
\* a Command from the channel) passes w's context.
C16_ContextStep ==
    \A w \in Workers :
        /\ context'[w] # context[w] =>
              (pc[w] = "init" /\ context[w] = NoContext /\ inits' = inits + 1
                 /\ chan' = chan /\ started' = started)
        /\ (pc[w] # "run" /\ pc'[w] = "run") =>
              (context[w] # NoContext /\ cur'[w].ctx = context[w])

\* C16: the factory has been called once for each thread that is past its
\* first statement and for no other, threadcount times at most; no two
\* threads hold the same context; a thread that has received a command holds
\* one; and every invocation under way holds the context of its own thread.
C16_ContextPerThread ==
    /\ [][C16_ContextStep]_vars
    /\ [](inits = Cardinality(Initialised) /\ inits <= threadcount)
    /\ [](\A w \in Workers : (context[w] # NoContext) <=> (w \in Initialised))
    /\ [](\A w, v \in Initialised : context[w] = context[v] => w = v)
    /\ [](\A w \in Workers :
            pc[w] = "run" =>
               /\ cur[w].ctx = context[w]
               /\ \A v \in Workers \ {w} : context[v] # cur[w].ctx)

\* Two threads, each running a task of one batch with its own context.
C16_Witness ==
    /\ threadcount = 2
    /\ inits = 2
    /\ \A w \in Workers : pc[w] = "run" /\ cur[w].ctx = context[w]
    /\ \E w, v \in Workers : cur[w].ctx # cur[v].ctx /\ cur[w].task[1] = cur[v].task[1]

\* C21, one step of wait(): a thread parks only with the flag not set, from
\* under the mutex, giving the mutex up in the same step; a thread that
\* finds the flag set under the mutex returns; and the flag is set, and the
\* parked threads woken, only by the holder of the mutex.
C21_WaitStep ==
    /\ \A t \in Waiters :
          /\ (pc[t] # "w_sleep" /\ pc'[t] = "w_sleep") =>
                /\ pc[t] = "w_check"
                /\ latch[TheLatch].mutex = t
                /\ ~latch[TheLatch].status
                /\ latch'[TheLatch].mutex = NoThread
          /\ (pc[t] = "w_check" /\ latch[TheLatch].status /\ pc'[t] # "w_check")
                => pc'[t] = "w_returned"
          /\ (pc[t] = "w_sleep" /\ pc'[t] # "w_sleep") =>
                (pc'[t] = "w_woken" /\ latch'[TheLatch].status)
    /\ (latch'[TheLatch].status /\ ~latch[TheLatch].status) =>
          \E c \in Counters : pc[c] = "cd_notify" /\ latch[TheLatch].mutex = c

\* C21: no thread is ever parked on a latch whose flag is set; the mutex has
\* one holder, so no waiter is between its check of the flag and its parking
\* while a countdown() sets the flag; and under LatchFairSpec a thread inside
\* wait() returns once a countdown() has taken the counter to zero, wherever
\* in wait() the thread was when that countdown() ran.
C21_NoLostWakeup ==
    /\ [][C21_WaitStep]_vars
    /\ [](latch[TheLatch].status => Sleepers(TheLatch) = {})
    /\ [](\A t \in Threads :
            pc[t] \in {"w_check", "cd_notify"} <=> latch[TheLatch].mutex = t)
    /\ \A t \in Waiters :
          (InWait(t) /\ (latch[TheLatch].status \/ Releasing # {}))
             ~> (pc[t] = "w_returned")

\* The waiter read a counter above zero, the n-th countdown() then ran to its
\* end, and only now has the waiter locked the mutex.
C21_Witness ==
    /\ latch[TheLatch].init >= 1
    /\ calls = latch[TheLatch].init
    /\ latch[TheLatch].count = 0
    /\ latch[TheLatch].status
    /\ \A c \in Counters : pc[c] = "idle"
    /\ pc[Main] = "w_check"
    /\ pc[<<"observer", 1>>] = "w_woken"

Accepted == {b \in Subs : sub[b].res # "Err"}
InCountdown(w) == pc[w] \in {"run", "cd_fetch", "cd_lock", "cd_notify"}

\* C22, one step: a step changes the latch of one batch at most, and the
\* counter of batch b's latch is changed only by a worker that holds a task
\* of batch b whose invocation has returned.
C22_IsolatedStep ==
    \A b \in Accepted :
        /\ latch'[b] # latch[b] =>
              \A a \in Accepted \ {b} : latch'[a] = latch[a]
        /\ latch'[b].count # latch[b].count =>
              \E w \in Workers :
                 /\ pc[w] = "cd_fetch"
                 /\ cur[w].task \in TasksOf(b)
                 /\ finished[cur[w].task] = 1
                 /\ \A a \in Accepted \ {b} : cur[w].task \notin TasksOf(a)

\* C22: every accepted submission has a latch of its own, sized to it; every
\* queued or running task carries the latch of its own batch; the handle of
\* batch b lets wait() through only with all of b's tasks returned and
\* counted, whatever the state of the other batches, and does so as soon as
\* they are; under FairSpec a completed batch gets released.
C22_BatchesIsolated ==
    /\ [][C22_IsolatedStep]_vars
    /\ [](\A b \in Accepted :
            /\ latch[b].live
            /\ latch[b].init = Len(sub[b].tasks)
            /\ \A a \in Accepted \ {b} : TasksOf(a) \cap TasksOf(b) = {})
    /\ [](\A k \in 1..Len(chan) :
            chan[k].kind = "Command" => chan[k].latch = chan[k].task[1])
    /\ [](\A w \in Workers : InCountdown(w) => cur[w].latch = cur[w].task[1])
    /\ [](\A b \in Accepted :
            Len(sub[b].tasks) >= 1 =>
               /\ WaitReturnsAtOnce(b) =>
                     (BatchCompleted(b) /\ AboutToCount(b) = {})
               /\ (BatchCompleted(b) /\ AboutToCount(b) = {}) =>
                     latch[b].count = 0)
    /\ \A b \in LatchIds :
          (b \in Accepted /\ Len(sub[b].tasks) >= 1 /\ BatchCompleted(b))
             ~> latch[b].status

\* The second batch is released while the task of the first, submitted
\* before it, is still running.
C22_Witness ==
    /\ Len(sub) = 2
    /\ Accepted = {1, 2}
    /\ Len(sub[2].tasks) = 2
    /\ latch[2].status
    /\ Len(sub[1].tasks) >= 1
    /\ ~BatchCompleted(1)
    /\ latch[1].count = Len(sub[1].tasks)
    /\ ~latch[1].status

\* C23, the call: on a pool of no threads that is alive, the step that
\* begins a send or send_all does not reject the batch.
C23_AcceptStep ==
    (threadcount = 0 /\ ~dead /\ Len(sub') = Len(sub) + 1)
        => sub'[Len(sub')].res # "Err"

\* C23: a pool constructed with thread count 0 has no worker thread and has
\* called no factory; a submission it accepted has a latch that still holds
\* the size of the batch with its flag not set; nothing is queued, no task
\* has been run; and no wait() on the handle of a non-empty batch has
\* returned.
C23_NoThreads ==
    threadcount = 0 =>
        /\ \A w \in Workers : pc[w] = "none"
        /\ inits = 0
        /\ chan = <<>>
        /\ started = <<>>
        /\ \A task \in Tasks : finished[task] = 0
        /\ \A b \in Subs :
              /\ sub[b].res = "Err" => dead
              /\ (sub[b].res = "Ok" /\ Len(sub[b].tasks) >= 1) =>
                    /\ sub[b].returned = <<>>
                    /\ latch[b].live
                    /\ latch[b].count = Len(sub[b].tasks)
                    /\ ~latch[b].status
                    /\ \A t \in Waiters : ~Returned(t, b)

C23_ZeroThreadPool ==
    /\ []C23_NoThreads
    /\ [][C23_AcceptStep]_vars

\* send_all of two tasks returned Ok on a pool of no threads, and the owner
\* is parked in wait() on its handle.
C23_Witness ==
    /\ threadcount = 0
    /\ ~dead
    /\ sub # <<>>
    /\ sub[1].res = "Ok"
    /\ Len(sub[1].tasks) = 2
    /\ pc[Main] = "w_sleep"
    /\ cur[Main].latch = 1

====
